---- MODULE Spec2Model ----
(***************************************************************************)
(* A model of asvmq: typed publish/subscribe (Publisher, Subscriber,       *)
(* Broadcaster) and work queues (Tasker, Worker) on top of a RabbitMQ      *)
(* broker driven through pika.                                             *)
(*                                                                         *)
(* Every method of the library is one operator that computes, from the     *)
(* arguments and from the broker's answers, what the method does: the      *)
(* exception it ends with (or "ok"), the ordered list of calls it made on  *)
(* the channel and on user code, and the object state it leaves.  Each     *)
(* action of the state machine applies one such operator to inputs drawn   *)
(* from small sets and records the call in lastCall.                       *)
(***************************************************************************)
EXTENDS Integers, Sequences, FiniteSets, TLC

(***************************************************************************)
(* Bounds of the model.                                                    *)
(***************************************************************************)
MaxStamp == 2        \* header stamps range over 0..MaxStamp ticks
MaxQueue == 1        \* queue_size (x-max-length) of the subscriber's queue
MaxDeliveries == 2   \* delivery tags handed out by the broker
MaxConnections == 2  \* connections one endpoint opens
MaxCloses == 2       \* close() calls one endpoint makes on its channel

(***************************************************************************)
(* Names fixed by the source.                                              *)
(***************************************************************************)
DEFAULT_EXCHANGE_NAME == "asvmq"
LOG_EXCHANGE_NAME == "logs"
GRAPH_EXCHANGE_NAME == "graph"

TopicName == "topic"        \* the topic_name both endpoints are built with
PubNode == "pub_node"       \* Publisher._node_name
SubNode == "sub_node"       \* Subscriber._node_name
QueueName == "jobs"         \* the queue_name of Tasker and Worker
BroadcastName == "cast"     \* Broadcaster._name_exchange

(***************************************************************************)
(* Payloads.  A payload is a Python object: a str, or a protobuf message   *)
(* of some generated class.  MsgA and MsgB are message classes that carry  *)
(* a header (sender, stamp); Log is a message class without one            *)
(* (asvprotobuf.std_pb2.Log itself).  init says whether the message can be *)
(* serialized (SerializeToString raises on an uninitialized message).      *)
(***************************************************************************)
Classes == {"str", "MsgA", "MsgB", "Log"}
DeclaredTypes == {"str", "MsgA"}
Stamps == 0 .. MaxStamp

HasHeader(cls) == cls \in {"MsgA", "MsgB"}

Obj(cls, sender, stamp, init) ==
    [cls |-> cls, sender |-> sender, stamp |-> stamp, init |-> init]

Payloads ==
    {Obj("str", "", 0, TRUE), Obj("Log", "", 0, TRUE), Obj("MsgB", "caller", 0, TRUE)}
    \cup {Obj("MsgA", "caller", s, TRUE) : s \in Stamps}
    \cup {Obj("MsgA", "caller", 0, FALSE)}

\* the payloads given to the endpoints whose code never reads the stamp
UnstampedPayloads == {m \in Payloads : m.stamp = 0}

\* isinstance(message, type) / type(message) == type: the generated classes
\* are never subclassed, so both compare the class.
IsInstance(message, type) == message.cls = type

(***************************************************************************)
(* Bodies on the wire.  SerializeToString writes the fields and not the    *)
(* class; FromString of a class reads the fields back into an object of    *)
(* that class, and fails on a body that is not a protobuf encoding.        *)
(***************************************************************************)
Body(kind, sender, stamp) == [kind |-> kind, sender |-> sender, stamp |-> stamp]
JunkBody == Body("junk", "", 0)
NoObj == Obj("none", "", 0, FALSE)

SerializeToString(message) == Body("pb", message.sender, message.stamp)
CanSerialize(message) == message.cls # "str" /\ message.init
CanParse(body) == body.kind = "pb"
FromString(type, body) == Obj(type, body.sender, body.stamp, TRUE)

(***************************************************************************)
(* Answers of the broker to basic_publish, as the installed pika gives     *)
(* them (setup.py asks for pika>=0.12.0):                                  *)
(*   "ok"    the message is taken and the call returns True                *)
(*   "nack"  the message is not taken and the call returns False           *)
(*   "none"  the message is taken and the call returns None (pika 1.x)     *)
(*   "raise" the call raises (channel or connection closed)                *)
(***************************************************************************)
Resp == {"ok", "nack", "none", "raise"}
Truthy(r) == r = "ok"
Taken(r) == r \in {"ok", "none"}

\* The answers to a call that is made only after a first call was answered r:
\* when the first answer ends the method the second is never asked for.
FollowUps(r) == IF Truthy(r) THEN Resp ELSE {"ok"}

\* The answers to the first call of a publish: no method asks the broker
\* anything for a payload that is not of its declared type.
Answers(message, declared) == IF message.cls = declared THEN Resp ELSE {"ok"}

\* One call made by a method, in the order the method makes them.
Ev(api, exchange, key, res) ==
    [api |-> api, exchange |-> exchange, routing_key |-> key, res |-> res]

\* What a method call leaves behind.
\*   outcome  "ok" or the exception the call ends with
\*   events   the calls it made on the channel and on user code, in order
\*   msg      the caller's message object after the call
\*   wire     the bodies the broker took for the primary exchange or queue
\*   stamp    Subscriber._last_timestamp after the call
\*   graph    the GraphEvents the broker took for the graph exchange
\*   raw      the bodies handed to the user callback as they arrived
Result(outcome, events, msg, wire, stamp, graph) ==
    [outcome |-> outcome, events |-> events, msg |-> msg, wire |-> wire,
     stamp |-> stamp, graph |-> graph, raw |-> <<>>]

(***************************************************************************)
(* Publisher.publish                                                       *)
(***************************************************************************)
Stamped(message) == [message EXCEPT !.sender = PubNode]

\* Publisher_send with the payload published before the log record
Publisher_send_PrimaryFirst(m, logResp, primResp) ==
    LET logEv == Ev("basic_publish", LOG_EXCHANGE_NAME, "", logResp)
        primEv == Ev("basic_publish", DEFAULT_EXCHANGE_NAME, TopicName, primResp)
        wire == IF Taken(primResp) THEN <<SerializeToString(m)>> ELSE <<>>
    IN  IF primResp = "raise"
        THEN Result("BrokerException", <<primEv>>, m, <<>>, 0, <<>>)
        ELSE IF ~Truthy(primResp)
        THEN Result("ChannelError", <<primEv>>, m, wire, 0, <<>>)
        ELSE IF logResp = "raise"
        THEN Result("BrokerException", <<primEv, logEv>>, m, wire, 0, <<>>)
        ELSE IF ~Truthy(logResp)
        THEN Result("RuntimeWarning", <<primEv, logEv>>, m, wire, 0, <<>>)
        ELSE Result("ok", <<primEv, logEv>>, m, wire, 0, <<>>)

\* lines 178-186: the log record goes out first, then the payload
Publisher_send(m, logResp, primResp) ==
    LET logEv == Ev("basic_publish", LOG_EXCHANGE_NAME, "", logResp)
        primEv == Ev("basic_publish", DEFAULT_EXCHANGE_NAME, TopicName, primResp)
        wire == IF Taken(primResp) THEN <<SerializeToString(m)>> ELSE <<>>
    IN  IF logResp = "raise"
        THEN Result("BrokerException", <<logEv>>, m, <<>>, 0, <<>>)
        ELSE IF ~Truthy(logResp)
        THEN Result("RuntimeWarning", <<logEv>>, m, <<>>, 0, <<>>)
        ELSE IF primResp = "raise"
        THEN Result("BrokerException", <<logEv, primEv>>, m, <<>>, 0, <<>>)
        ELSE IF ~Truthy(primResp)
        THEN Result("ChannelError", <<logEv, primEv>>, m, wire, 0, <<>>)
        ELSE Result("ok", <<logEv, primEv>>, m, wire, 0, <<>>)

\* Publisher_publish with the payload serialized as the caller handed it in
Publisher_publish_Unstamped(type, message, logResp, primResp) ==
    IF ~HasHeader(message.cls)
    THEN Result("AttributeError", <<>>, message, <<>>, 0, <<>>)
    ELSE IF ~IsInstance(message, type)
    THEN Result("ValueError_type", <<>>, message, <<>>, 0, <<>>)
    ELSE IF ~CanSerialize(message)
    THEN Result("ValueError_encode", <<>>, message, <<>>, 0, <<>>)
    ELSE Publisher_send(message, logResp, primResp)

Publisher_publish(type, message, logResp, primResp) ==
    IF ~HasHeader(message.cls)
    THEN \* message.header.sender = ... on an object without a header
         Result("AttributeError", <<>>, message, <<>>, 0, <<>>)
    ELSE IF ~IsInstance(Stamped(message), type)
    THEN Result("ValueError_type", <<>>, Stamped(message), <<>>, 0, <<>>)
    ELSE IF ~CanSerialize(Stamped(message))
    THEN Result("ValueError_encode", <<>>, Stamped(message), <<>>, 0, <<>>)
    ELSE Publisher_send(Stamped(message), logResp, primResp)

(***************************************************************************)
(* Subscriber.callback                                                     *)
(*                                                                         *)
(* Header stamps are counted in ticks, TicksPerSecond ticks to the second, *)
(* so that curr_timestamp = seconds + nanos/10**9 is ticks/TicksPerSecond  *)
(* and a frequency is the fraction num/den (den > 0).                      *)
(***************************************************************************)
TicksPerSecond == 2

Frac(num, den) == [num |-> num, den |-> den]
ZeroFreq == Frac(0, 1)

\* Reciprocal giving the difference in seconds instead of its inverse
Reciprocal_Period(curr, last) ==
    IF curr - last > 0 THEN Frac(curr - last, TicksPerSecond)
                       ELSE Frac(curr - last, TicksPerSecond)

\* 1/(curr_timestamp - self._last_timestamp), both in ticks, difference # 0
Reciprocal(curr, last) ==
    IF curr - last > 0 THEN Frac(TicksPerSecond, curr - last)
                       ELSE Frac(0 - TicksPerSecond, last - curr)

\* GraphFreq without the first-message branch of lines 295-296
GraphFreq_NoFirst(curr, last) ==
    LET freq == IF curr - last # 0 THEN Reciprocal(curr, last) ELSE ZeroFreq
    IN  IF freq.num < 0 THEN ZeroFreq ELSE freq

\* GraphFreq without the guard of line 298: a zero difference is divided by
GraphFreq_Unguarded(curr, last) ==
    LET freq == IF last = 0 THEN ZeroFreq
                ELSE IF curr - last # 0 THEN Reciprocal(curr, last)
                ELSE Frac(1, 0)
    IN  IF freq.num < 0 THEN ZeroFreq ELSE freq

\* GraphFreq without the clamp of lines 301-302
GraphFreq_NoClamp(curr, last) ==
    IF last = 0 THEN ZeroFreq
    ELSE IF curr - last # 0 THEN Reciprocal(curr, last)
    ELSE ZeroFreq

\* lines 295-302: the frequency written into the Graph message
GraphFreq(curr, last) ==
    LET freq == IF last = 0 THEN ZeroFreq
                ELSE IF curr - last # 0 THEN Reciprocal(curr, last)
                ELSE ZeroFreq
    IN  IF freq.num < 0 THEN ZeroFreq ELSE freq

GraphMessage(type, msg, last) ==
    [sender |-> msg.sender, msg_type |-> type, receiver |-> SubNode,
     freq |-> GraphFreq(msg.stamp, last)]

AckResp == {"ok", "raise"}
CbResp == {"ok", "raise"}     \* the user callback returns or raises

\* Subscriber_raw with the delivery acknowledged as on the structured path
Subscriber_raw_Acked(last, body, cbResp) ==
    [Result(IF cbResp = "ok" THEN "ok" ELSE "CallbackError",
            <<Ev("basic_ack", "", "", "ok"), Ev("callback", "", "", cbResp)>>,
            NoObj, <<>>, last, <<>>)
     EXCEPT !.raw = <<body>>]

\* lines 276-277: a str subscription hands the body over as it arrived
Subscriber_raw(last, body, cbResp) ==
    [Result(IF cbResp = "ok" THEN "ok" ELSE "CallbackError",
            <<Ev("callback", "", "", cbResp)>>, NoObj, <<>>, last, <<>>)
     EXCEPT !.raw = <<body>>]

\* Subscriber_process with the ack moved after the user callback
Subscriber_process_AckLast(type, last, msg, ackResp, graphResp, cbResp) ==
    LET cbEv == Ev("callback", "", "", cbResp)
        ackEv == Ev("basic_ack", "", "", ackResp)
        graphEv == Ev("basic_publish", GRAPH_EXCHANGE_NAME, "", graphResp)
        taken == IF Taken(graphResp) THEN <<GraphMessage(type, msg, last)>> ELSE <<>>
    IN  IF graphResp = "raise"
        THEN Result("BrokerException", <<graphEv>>, msg, <<>>, msg.stamp, <<>>)
        ELSE IF ~Truthy(graphResp)
        THEN Result("RuntimeWarning", <<graphEv>>, msg, <<>>, msg.stamp, taken)
        ELSE IF cbResp = "raise"
        THEN Result("CallbackError", <<graphEv, cbEv>>, msg, <<>>, msg.stamp, taken)
        ELSE IF ackResp = "raise"
        THEN Result("BrokerException", <<graphEv, cbEv, ackEv>>, msg, <<>>,
                    msg.stamp, taken)
        ELSE Result("ok", <<graphEv, cbEv, ackEv>>, msg, <<>>, msg.stamp, taken)

\* Subscriber_process with the Graph message published after the user callback
Subscriber_process_GraphLast(type, last, msg, ackResp, graphResp, cbResp) ==
    LET cbEv == Ev("callback", "", "", cbResp)
        ackEv == Ev("basic_ack", "", "", ackResp)
        graphEv == Ev("basic_publish", GRAPH_EXCHANGE_NAME, "", graphResp)
        taken == IF Taken(graphResp) THEN <<GraphMessage(type, msg, last)>> ELSE <<>>
    IN  IF ackResp = "raise"
        THEN Result("BrokerException", <<ackEv>>, msg, <<>>, last, <<>>)
        ELSE IF cbResp = "raise"
        THEN Result("CallbackError", <<ackEv, cbEv>>, msg, <<>>, msg.stamp, <<>>)
        ELSE IF graphResp = "raise"
        THEN Result("BrokerException", <<ackEv, cbEv, graphEv>>, msg, <<>>,
                    msg.stamp, <<>>)
        ELSE IF ~Truthy(graphResp)
        THEN Result("RuntimeWarning", <<ackEv, cbEv, graphEv>>, msg, <<>>,
                    msg.stamp, taken)
        ELSE Result("ok", <<ackEv, cbEv, graphEv>>, msg, <<>>, msg.stamp, taken)

\* Subscriber_process with _last_timestamp set only once the Graph message
\* was delivered
Subscriber_process_StampLast(type, last, msg, ackResp, graphResp, cbResp) ==
    LET cbEv == Ev("callback", "", "", cbResp)
        ackEv == Ev("basic_ack", "", "", ackResp)
        graphEv == Ev("basic_publish", GRAPH_EXCHANGE_NAME, "", graphResp)
        taken == IF Taken(graphResp) THEN <<GraphMessage(type, msg, last)>> ELSE <<>>
    IN  IF ackResp = "raise"
        THEN Result("BrokerException", <<ackEv>>, msg, <<>>, last, <<>>)
        ELSE IF graphResp = "raise"
        THEN Result("BrokerException", <<ackEv, graphEv>>, msg, <<>>, last, <<>>)
        ELSE IF ~Truthy(graphResp)
        THEN Result("RuntimeWarning", <<ackEv, graphEv>>, msg, <<>>, last, taken)
        ELSE Result(IF cbResp = "ok" THEN "ok" ELSE "CallbackError",
                    <<ackEv, graphEv, cbEv>>, msg, <<>>, msg.stamp, taken)

\* lines 289-308: ack, Graph message, user callback
Subscriber_process(type, last, msg, ackResp, graphResp, cbResp) ==
    LET cbEv == Ev("callback", "", "", cbResp)
        ackEv == Ev("basic_ack", "", "", ackResp)
        graphEv == Ev("basic_publish", GRAPH_EXCHANGE_NAME, "", graphResp)
        taken == IF Taken(graphResp) THEN <<GraphMessage(type, msg, last)>> ELSE <<>>
    IN  IF ackResp = "raise"
        THEN Result("BrokerException", <<ackEv>>, msg, <<>>, last, <<>>)
        ELSE IF graphResp = "raise"
        THEN Result("BrokerException", <<ackEv, graphEv>>, msg, <<>>, msg.stamp, <<>>)
        ELSE IF ~Truthy(graphResp)
        THEN Result("RuntimeWarning", <<ackEv, graphEv>>, msg, <<>>, msg.stamp, taken)
        ELSE Result(IF cbResp = "ok" THEN "ok" ELSE "CallbackError",
                    <<ackEv, graphEv, cbEv>>, msg, <<>>, msg.stamp, taken)

\* Subscriber_callback with the delivery acknowledged before it is decoded
Subscriber_callback_AckFirst(type, last, body, ackResp, graphResp, cbResp) ==
    IF type = "str"
    THEN Subscriber_raw(last, body, cbResp)
    ELSE IF ackResp = "raise"
    THEN Result("BrokerException", <<Ev("basic_ack", "", "", ackResp)>>, NoObj,
                <<>>, last, <<>>)
    ELSE IF ~CanParse(body)
    THEN Result("ValueError_decode", <<Ev("basic_ack", "", "", ackResp)>>, NoObj,
                <<>>, last, <<>>)
    ELSE Subscriber_process(type, last, FromString(type, body),
                            ackResp, graphResp, cbResp)

Subscriber_callback(type, last, body, ackResp, graphResp, cbResp) ==
    IF type = "str"
    THEN Subscriber_raw(last, body, cbResp)
    ELSE IF ~CanParse(body)
    THEN Result("ValueError_decode", <<>>, NoObj, <<>>, last, <<>>)
    ELSE Subscriber_process(type, last, FromString(type, body),
                            ackResp, graphResp, cbResp)

(***************************************************************************)
(* Broadcaster                                                             *)
(*                                                                         *)
(* A channel is "none" (self._channel is None), "open" or "closed".        *)
(***************************************************************************)
ChannelStates == {"none", "open", "closed"}

\* Broadcaster.create: opens a connection and a channel only when there is
\* none, then declares the exchange (which raises on a closed channel).
Broadcaster_create(channel) ==
    IF channel = "none" THEN "open" ELSE channel

\* utf8: whether the serialized bytes decode as text (.decode()); only the
\* bytes of a payload of the declared type are ever decoded
Decodings(message, declared) ==
    IF message.cls = declared THEN BOOLEAN ELSE {TRUE}

Broadcaster_publish(type, channel, message, utf8, resp) ==
    LET ev == Ev("basic_publish", BroadcastName, "", resp)
        wire == IF Taken(resp) THEN <<SerializeToString(message)>> ELSE <<>>
    IN  IF ~IsInstance(message, type)
        THEN Result("ValueError_type", <<>>, message, <<>>, 0, <<>>)
        ELSE IF message.cls = "str"
        THEN \* str has no SerializeToString
             Result("AttributeError", <<>>, message, <<>>, 0, <<>>)
        ELSE IF ~message.init
        THEN Result("EncodeError", <<>>, message, <<>>, 0, <<>>)
        ELSE IF ~utf8
        THEN Result("UnicodeDecodeError", <<>>, message, <<>>, 0, <<>>)
        ELSE IF channel = "none"
        THEN \* None.basic_publish
             Result("AttributeError", <<>>, message, <<>>, 0, <<>>)
        ELSE IF resp = "raise"
        THEN Result("BrokerException", <<ev>>, message, <<>>, 0, <<>>)
        ELSE \* an undelivered message is printed, the call returns
             Result("ok", <<ev>>, message, wire, 0, <<>>)

(***************************************************************************)
(* Work queues.  The attributes each class of work_queue_communications    *)
(* defines (its own and those of Queue), and the names the module binds.   *)
(* The methods are modelled statement by statement as they are written;    *)
(* the file itself mixes tabs and spaces (line 137) and Python refuses to  *)
(* compile it before any of them can run.                                  *)
(***************************************************************************)
QueueAttrs ==
    {"_parameters", "_channel", "_queue_name", "_queue", "_durable", "params",
     "hostname", "port", "queue_name", "is_durable", "create", "close"}
TaskerAttrs ==
    QueueAttrs \cup {"_persistant", "_object_type", "is_persistant",
                     "object_type", "publish"}
WorkerAttrs ==
    QueueAttrs \cup {"_object_type", "_prefetch_qos", "_callback",
                     "_callback_args", "prefetch", "object_type", "publish"}
WorkQueueGlobals == {"pika", "asvprotobuf", "MessageToJson", "Queue", "Tasker", "Worker"}

TextBody == Body("text", "", 0)

\* Tasker(queue_name, object_type, persistant=True, ..., durable=False)
Persistant == TRUE
Durable == FALSE

Tasker_publish(type, persistant, message, resp) ==
    LET ev == Ev("basic_publish", "", QueueName, resp)
        body == IF type = "str" THEN TextBody ELSE SerializeToString(message)
        wire == IF Taken(resp) THEN <<body>> ELSE <<>>
    IN  IF "type" \notin TaskerAttrs
        THEN \* self.type
             Result("AttributeError", <<>>, message, <<>>, 0, <<>>)
        ELSE IF type # "str" /\ ~CanSerialize(message)
        THEN Result("ValueError_encode", <<>>, message, <<>>, 0, <<>>)
        ELSE IF resp = "raise"
        THEN Result("ChannelError", <<ev>>, message, <<>>, 0, <<>>)
        ELSE \* the value basic_publish returns is not looked at
             Result("ok", <<ev>>, message, wire, 0, <<>>)

\* Worker.__init__ -> Queue.__init__ -> self.create() -> Worker.create,
\* whose first statement is Channel.create(self).
Worker_init ==
    IF "Channel" \notin WorkQueueGlobals
    THEN Result("NameError", <<>>, NoObj, <<>>, 0, <<>>)
    ELSE Result("ok", <<>>, NoObj, <<>>, 0, <<>>)

(***************************************************************************)
(* Opening and closing.  An endpoint's lifecycle state is its _channel,    *)
(* the number of connections it has opened and the number of close() calls *)
(* it has made on a channel.  A lifecycle method leaves an outcome, the    *)
(* calls it made, and the new lifecycle state.                             *)
(***************************************************************************)
Life(outcome, events, channel, conns, closes) ==
    [outcome |-> outcome, events |-> events, channel |-> channel,
     conns |-> conns, closes |-> closes]

ConnResp == {"ok", "raise"}   \* pika.BlockingConnection(params) connects or raises

DeclareEv(api, name, channel) ==
    Ev(api, name, "", IF channel = "open" THEN "ok" ELSE "raise")

\* Channel.close, lines 79-86: nothing without a channel, close() only on
\* an open one
Channel_close(channel, conns, closes) ==
    IF channel = "none" THEN Life("ok", <<>>, channel, conns, closes)
    ELSE IF channel = "open"
    THEN Life("ok", <<Ev("close", "", "", "ok")>>, "closed", conns, closes + 1)
    ELSE Life("ok", <<>>, channel, conns, closes)

\* Queue.close, lines 63-68: returns when there is a channel; without one
\* it reads None.is_open
Queue_close(channel, conns, closes) ==
    IF channel # "none" THEN Life("ok", <<>>, channel, conns, closes)
    ELSE Life("AttributeError", <<>>, channel, conns, closes)

\* Broadcaster.close, lines 12-15: close() on whatever channel there is;
\* pika raises when the channel is closed already
Broadcaster_close(channel, conns, closes) ==
    IF channel = "none" THEN Life("ok", <<>>, channel, conns, closes)
    ELSE IF channel = "open"
    THEN Life("ok", <<Ev("close", "", "", "ok")>>, "closed", conns, closes + 1)
    ELSE Life("BrokerException", <<Ev("close", "", "", "raise")>>, channel, conns,
              closes + 1)

\* Channel.create, lines 96-102, followed by the declaration of the logging
\* exchange of Publisher.create, lines 152-154
Publisher_create(channel, conns, closes, connResp) ==
    IF channel = "none" /\ connResp = "raise"
    THEN Life("ConnectionError", <<>>, channel, conns, closes)
    ELSE LET ch == IF channel = "none" THEN "open" ELSE channel
             n == IF channel = "none" THEN conns + 1 ELSE conns
             first == DeclareEv("exchange_declare", DEFAULT_EXCHANGE_NAME, ch)
             second == DeclareEv("exchange_declare", LOG_EXCHANGE_NAME, ch)
         IN  IF ch = "open" THEN Life("ok", <<first, second>>, ch, n, closes)
             ELSE Life("BrokerException", <<first>>, ch, n, closes)

\* Broadcaster.create, lines 46-51, with what it leaves besides the channel
Broadcaster_declare(channel, conns, closes) ==
    LET ch == Broadcaster_create(channel)
        n == IF channel = "none" THEN conns + 1 ELSE conns
        ev == DeclareEv("exchange_declare", BroadcastName, ch)
    IN  Life(IF ch = "open" THEN "ok" ELSE "BrokerException", <<ev>>, ch, n, closes)

\* Queue.create, lines 57-61: a new connection and channel at every call
Queue_create(channel, conns, closes, connResp) ==
    IF connResp = "raise"
    THEN Life("ConnectionError", <<>>, channel, conns, closes)
    ELSE Life("ok", <<Ev("queue_declare", QueueName, "", "ok")>>, "open",
              conns + 1, closes)

\* the delivery handler of work_queue_communications, lines 219-238
WorkQueue_callback(type, body, ackResp, cbResp) ==
    LET cbEv == Ev("callback", "", "", cbResp)
        ackEv == Ev("basic_ack", "", "", ackResp)
        cbOutcome == IF cbResp = "ok" THEN "ok" ELSE "CallbackError"
    IN  IF type = "str"
        THEN [Result(cbOutcome, <<cbEv>>, NoObj, <<>>, 0, <<>>) EXCEPT !.raw = <<body>>]
        ELSE IF ~CanParse(body)
        THEN Result("ValueError_decode", <<>>, NoObj, <<>>, 0, <<>>)
        ELSE IF ackResp = "raise"
        THEN Result("BrokerException", <<ackEv>>, FromString(type, body), <<>>, 0, <<>>)
        ELSE Result(cbOutcome, <<ackEv, cbEv>>, FromString(type, body), <<>>, 0, <<>>)

(***************************************************************************)
(* The broker's side of the subscriber's queue.                            *)
(***************************************************************************)
\* a body routed to a queue declared with x-max-length: the oldest goes
Route(queue, wire) ==
    LET q == queue \o wire
    IN  IF Len(q) > MaxQueue THEN Tail(q) ELSE q

\* what producers that are not this library put on the topic
ForeignBodies == {JunkBody}

RECURSIVE CountAcks(_)
CountAcks(events) ==
    IF events = <<>> THEN 0
    ELSE (IF Head(events).api = "basic_ack" /\ Head(events).res = "ok" THEN 1 ELSE 0)
         + CountAcks(Tail(events))

(***************************************************************************)
(* State.                                                                  *)
(*   type        the payload type each endpoint was constructed with       *)
(*   channel     each endpoint's _channel                                  *)
(*   sub         the Subscriber: its consume loop and _last_timestamp      *)
(*   subQueue    the messages ready in the subscriber's queue              *)
(*   deliveries  per delivery tag, the number of acks the broker received  *)
(*   jobs        the messages ready in the work queue                      *)
(*   worker      the Worker: "unborn", "consuming" or "failed"             *)
(*   lastCall    the library method called in the last step and what it    *)
(*               did (NoCall when the last step was the broker's)         *)
(*   life        per endpoint, the connections it opened and the close()   *)
(*               calls it made on a channel                                *)
(***************************************************************************)
VARIABLES type, channel, sub, subQueue, deliveries, jobs, worker, lastCall, life

vars == <<type, channel, sub, subQueue, deliveries, jobs, worker, lastCall, life>>

Endpoints == {"pub", "sub", "bc", "tasker", "worker"}

Call(op, declared, arg, body, tag, prev, chan, r) ==
    [op |-> op, type |-> declared, arg |-> arg, body |-> body, tag |-> tag,
     prev |-> prev, chan |-> chan, outcome |-> r.outcome, events |-> r.events,
     msg |-> r.msg, wire |-> r.wire, stamp |-> r.stamp, graph |-> r.graph,
     raw |-> r.raw]

NoCall ==
    Call("none", "str", NoObj, JunkBody, 0, 0, "none",
         Result("ok", <<>>, NoObj, <<>>, 0, <<>>))

\* The endpoints of one deployment are built for the same payload type.
\* Publisher, Subscriber and Tasker open their channel in __init__; the
\* Subscriber's __init__ is inside start_consuming; the Broadcaster opens
\* nothing until create() is called; no Worker has been constructed.
Init ==
    /\ \E t \in DeclaredTypes : type = [e \in Endpoints |-> t]
    /\ channel = [pub |-> "open", sub |-> "open", bc |-> "none",
                  tasker |-> "open", worker |-> "none"]
    /\ sub = [pc |-> "consuming", last_timestamp |-> 0]
    /\ subQueue = <<>>
    /\ deliveries = <<>>
    /\ jobs = <<>>
    /\ worker = "unborn"
    /\ lastCall = NoCall
    /\ life = [conns |-> [e \in Endpoints |-> IF channel[e] = "open" THEN 1 ELSE 0],
               closes |-> [e \in Endpoints |-> 0]]

PublisherPublish ==
    \E message \in Payloads :
      \E logResp \in Answers(message, type.pub) :
      \E primResp \in FollowUps(logResp) :
        LET r == Publisher_publish(type.pub, message, logResp, primResp)
        IN  /\ lastCall' = Call("Publisher.publish", type.pub, message, JunkBody,
                                0, 0, channel.pub, r)
            /\ subQueue' = Route(subQueue, r.wire)
            /\ UNCHANGED <<life, type, channel, sub, deliveries, jobs, worker>>

\* a lifecycle call of endpoint e that left l
LifeStep(op, e, l) ==
    /\ channel' = [channel EXCEPT ![e] = l.channel]
    /\ life' = [conns |-> [life.conns EXCEPT ![e] = l.conns],
                closes |-> [life.closes EXCEPT ![e] = l.closes]]
    /\ lastCall' = Call(op, type[e], NoObj, JunkBody, 0, 0, channel[e],
                        Result(l.outcome, l.events, NoObj, <<>>, 0, <<>>))

BroadcasterCreate ==
    /\ LifeStep("Broadcaster.create", "bc",
                Broadcaster_declare(channel.bc, life.conns.bc, life.closes.bc))
    /\ UNCHANGED <<type, sub, subQueue, deliveries, jobs, worker>>

BroadcasterPublish ==
    \E message \in UnstampedPayloads :
      \E resp \in Answers(message, type.bc), utf8 \in Decodings(message, type.bc) :
        LET r == Broadcaster_publish(type.bc, channel.bc, message, utf8, resp)
        IN  /\ lastCall' = Call("Broadcaster.publish", type.bc, message, JunkBody,
                                0, 0, channel.bc, r)
            /\ UNCHANGED <<life, type, channel, sub, subQueue, deliveries, jobs, worker>>

\* a producer outside the library publishes on the topic
ForeignPublish ==
    \E body \in ForeignBodies :
        /\ subQueue' = Route(subQueue, <<body>>)
        /\ lastCall' = NoCall
        /\ UNCHANGED <<life, type, channel, sub, deliveries, jobs, worker>>

\* x-message-ttl: the oldest ready message expires
Expire ==
    /\ subQueue # <<>>
    /\ subQueue' = Tail(subQueue)
    /\ lastCall' = NoCall
    /\ UNCHANGED <<life, type, channel, sub, deliveries, jobs, worker>>

\* The broker delivers the oldest ready message and pika runs
\* Subscriber.callback inside start_consuming; an exception of the callback
\* leaves start_consuming and ends the Subscriber.
Deliver ==
    /\ sub.pc = "consuming"
    /\ subQueue # <<>>
    /\ Len(deliveries) < MaxDeliveries
    /\ \E ackResp \in AckResp, graphResp \in Resp :
       \E cbResp \in IF Truthy(graphResp) THEN CbResp ELSE {"ok"} :
        LET body == Head(subQueue)
            r == Subscriber_callback(type.sub, sub.last_timestamp, body,
                                     ackResp, graphResp, cbResp)
        IN  /\ lastCall' = Call("Subscriber.callback", type.sub, NoObj, body,
                                Len(deliveries) + 1, sub.last_timestamp,
                                channel.sub, r)
            /\ sub' = [pc |-> IF r.outcome = "ok" THEN "consuming" ELSE "dead",
                       last_timestamp |-> r.stamp]
            /\ deliveries' = Append(deliveries, CountAcks(r.events))
            /\ subQueue' = Tail(subQueue)
            /\ UNCHANGED <<life, type, channel, jobs, worker>>

TaskerPublish ==
    \E message \in UnstampedPayloads :
      \E resp \in Answers(message, type.tasker) :
        LET r == Tasker_publish(type.tasker, Persistant, message, resp)
        IN  /\ lastCall' = Call("Tasker.publish", type.tasker, message, JunkBody,
                                0, 0, channel.tasker, r)
            /\ jobs' = Route(jobs, r.wire)
            /\ UNCHANGED <<life, type, channel, sub, subQueue, deliveries, worker>>

WorkerInit ==
    LET r == Worker_init
    IN  /\ worker' = IF r.outcome = "ok" THEN "consuming" ELSE "failed"
        /\ lastCall' = Call("Worker.__init__", type.worker, NoObj, JunkBody, 0, 0,
                            channel.worker, r)
        /\ UNCHANGED <<life, type, channel, sub, subQueue, deliveries, jobs>>

Next ==
    \/ PublisherPublish
    \/ BroadcasterCreate
    \/ BroadcasterPublish
    \/ ForeignPublish
    \/ Expire
    \/ Deliver
    \/ TaskerPublish
    \/ WorkerInit

Spec == Init /\ [][Next]_vars

(***************************************************************************)
(* Opening and closing of the endpoints.  The Publisher, the Subscriber    *)
(* and the Tasker exist (the Publisher's __init__ may have failed to       *)
(* connect and left no channel), the Broadcaster has opened nothing, no    *)
(* Worker has been constructed.  close() is called by the user or by       *)
(* __del__ at disposal.                                                    *)
(***************************************************************************)
ClassOf ==
    [pub |-> "Publisher", sub |-> "Subscriber", bc |-> "Broadcaster",
     tasker |-> "Tasker", worker |-> "Worker"]

CloseOp == [e \in Endpoints |-> ClassOf[e] \o ".close"]
DelOp == [e \in Endpoints |-> ClassOf[e] \o ".__del__"]
CreateOp == [e \in Endpoints |-> ClassOf[e] \o ".create"]

InitLife ==
    /\ \E t \in DeclaredTypes : type = [e \in Endpoints |-> t]
    /\ \E p \in {"none", "open"} :
         channel = [pub |-> p, sub |-> "open", bc |-> "none", tasker |-> "open",
                    worker |-> "none"]
    /\ sub = [pc |-> "consuming", last_timestamp |-> 0]
    /\ subQueue = <<>>
    /\ deliveries = <<>>
    /\ jobs = <<>>
    /\ worker = "unborn"
    /\ lastCall = NoCall
    /\ life = [conns |-> [e \in Endpoints |-> IF channel[e] = "open" THEN 1 ELSE 0],
               closes |-> [e \in Endpoints |-> 0]]

ChannelClose ==
    \E e \in {"pub", "sub"} : \E op \in {CloseOp[e], DelOp[e]} :
        /\ LifeStep(op, e, Channel_close(channel[e], life.conns[e], life.closes[e]))
        /\ UNCHANGED <<type, sub, subQueue, deliveries, jobs, worker>>

\* a Worker is disposed of only once its construction was attempted
QueueClose ==
    \E e \in {"tasker", "worker"} : \E op \in {CloseOp[e], DelOp[e]} :
        /\ e = "worker" => worker # "unborn"
        /\ LifeStep(op, e, Queue_close(channel[e], life.conns[e], life.closes[e]))
        /\ UNCHANGED <<type, sub, subQueue, deliveries, jobs, worker>>

BroadcasterClose ==
    /\ life.closes.bc < MaxCloses
    /\ \E op \in {CloseOp.bc, DelOp.bc} :
        /\ LifeStep(op, "bc",
                    Broadcaster_close(channel.bc, life.conns.bc, life.closes.bc))
        /\ UNCHANGED <<type, sub, subQueue, deliveries, jobs, worker>>

PublisherCreate ==
    \E connResp \in IF channel.pub = "none" THEN ConnResp ELSE {"ok"} :
        /\ LifeStep(CreateOp.pub, "pub",
                    Publisher_create(channel.pub, life.conns.pub, life.closes.pub,
                                     connResp))
        /\ UNCHANGED <<type, sub, subQueue, deliveries, jobs, worker>>

TaskerCreate ==
    /\ life.conns.tasker < MaxConnections
    /\ \E connResp \in ConnResp :
        /\ LifeStep(CreateOp.tasker, "tasker",
                    Queue_create(channel.tasker, life.conns.tasker, life.closes.tasker,
                                 connResp))
        /\ UNCHANGED <<type, sub, subQueue, deliveries, jobs, worker>>

NextLife ==
    \/ ChannelClose
    \/ QueueClose
    \/ BroadcasterClose
    \/ PublisherCreate
    \/ BroadcasterCreate
    \/ TaskerCreate
    \/ WorkerInit

SpecLife == InitLife /\ [][NextLife]_vars

(***************************************************************************)
(* The job queue with the delivery handler of work_queue_communications    *)
(* registered on it (lines 208-218 register self.callback and consume).    *)
(* Tasker.publish puts nothing on the queue, so the jobs come from other   *)
(* producers.                                                              *)
(***************************************************************************)
TaskBodies == {TextBody, JunkBody, Body("pb", "caller", 0)}

InitWork ==
    /\ \E t \in DeclaredTypes : type = [e \in Endpoints |-> t]
    /\ channel = [pub |-> "open", sub |-> "open", bc |-> "none", tasker |-> "open",
                  worker |-> "open"]
    /\ sub = [pc |-> "consuming", last_timestamp |-> 0]
    /\ subQueue = <<>>
    /\ deliveries = <<>>
    /\ jobs = <<>>
    /\ worker = "consuming"
    /\ lastCall = NoCall
    /\ life = [conns |-> [e \in Endpoints |-> IF channel[e] = "open" THEN 1 ELSE 0],
               closes |-> [e \in Endpoints |-> 0]]

ForeignTask ==
    \E body \in TaskBodies :
        /\ jobs' = Route(jobs, <<body>>)
        /\ lastCall' = NoCall
        /\ UNCHANGED <<life, type, channel, sub, subQueue, deliveries, worker>>

\* an exception of the handler leaves start_consuming and ends the consumer
WorkDeliver ==
    /\ worker = "consuming"
    /\ jobs # <<>>
    /\ Len(deliveries) < MaxDeliveries
    /\ \E ackResp \in AckResp :
       \E cbResp \in IF ackResp = "ok" THEN CbResp ELSE {"ok"} :
        LET body == Head(jobs)
            r == WorkQueue_callback(type.worker, body, ackResp, cbResp)
        IN  /\ lastCall' = Call("Worker.callback", type.worker, NoObj, body,
                                Len(deliveries) + 1, 0, channel.worker, r)
            /\ worker' = IF r.outcome = "ok" THEN "consuming" ELSE "failed"
            /\ deliveries' = Append(deliveries, CountAcks(r.events))
            /\ jobs' = Tail(jobs)
            /\ UNCHANGED <<life, type, channel, sub, subQueue>>

NextWork ==
    \/ TaskerPublish
    \/ ForeignTask
    \/ WorkDeliver

SpecWork == InitWork /\ [][NextWork]_vars

TypeOK ==
    /\ sub.pc \in {"consuming", "dead"}
    /\ sub.last_timestamp \in Stamps
    /\ Len(subQueue) <= MaxQueue
    /\ Len(deliveries) <= MaxDeliveries
    /\ channel \in [Endpoints -> ChannelStates]

(***************************************************************************)
(* Properties                                                              *)
(***************************************************************************)
PublishOps == {"Publisher.publish", "Broadcaster.publish"}

\* the calls a method made on the broker
BrokerCalls(events) == {i \in 1 .. Len(events) : events[i].api # "callback"}

\* C1: a publish of a payload that is not of the declared type fails with
\* the type-mismatch error (the ValueError of lines 163-165 and of
\* broadcaster.py line 56) and makes no call on the broker: nothing goes to
\* the logging exchange and nothing to the primary exchange.
C1_MismatchRejectedAsTypeError ==
    (lastCall.op \in PublishOps /\ ~IsInstance(lastCall.arg, lastCall.type))
        => /\ lastCall.outcome = "ValueError_type"
           /\ BrokerCalls(lastCall.events) = {}
           /\ lastCall.wire = <<>>

\* C2: a Publisher.publish call that returns has made exactly two calls on
\* the broker: first one basic_publish to the logging exchange, then one
\* basic_publish to the topic exchange with the topic as routing key, and
\* the broker holds exactly the serialized payload.
C2_OneLogThenOnePrimary ==
    (lastCall.op = "Publisher.publish" /\ lastCall.outcome = "ok")
        => /\ lastCall.events =
                <<Ev("basic_publish", LOG_EXCHANGE_NAME, "", "ok"),
                  Ev("basic_publish", DEFAULT_EXCHANGE_NAME, TopicName, "ok")>>
           /\ lastCall.wire = <<SerializeToString(lastCall.msg)>>

C2_Witness ==
    /\ lastCall.op = "Publisher.publish"
    /\ lastCall.outcome = "ok"
    /\ Len(lastCall.events) = 2
    /\ subQueue # <<>>

\* a payload the endpoint is built for and can put on the wire
ValidFor(op, declared, message) ==
    /\ IsInstance(message, declared)
    /\ IF op = "Tasker.publish" /\ declared = "str" THEN TRUE
                                                    ELSE CanSerialize(message)

\* the logging publish of the call, if it was made, was answered r
LogAnswered(events, r) ==
    \E i \in 1 .. Len(events) :
        /\ events[i].api = "basic_publish"
        /\ events[i].exchange = LOG_EXCHANGE_NAME
        /\ events[i].res = r

PrimaryPublished(events) ==
    \E i \in 1 .. Len(events) :
        /\ events[i].api = "basic_publish"
        /\ events[i].exchange = DEFAULT_EXCHANGE_NAME
        /\ events[i].routing_key = TopicName

C4_LoggingFailureKeepsPrimary ==
    (/\ lastCall.op = "Publisher.publish"
     /\ \E r \in {r \in Resp : ~Taken(r)} : LogAnswered(lastCall.events, r))
        => PrimaryPublished(lastCall.events)

(***************************************************************************)
(* Deliveries to the Subscriber                                            *)
(***************************************************************************)
StructuredDelivery ==
    lastCall.op = "Subscriber.callback" /\ lastCall.type # "str"

CallbackAt(events) == {i \in 1 .. Len(events) : events[i].api = "callback"}

GraphAt(events) ==
    {i \in 1 .. Len(events) :
        events[i].api = "basic_publish" /\ events[i].exchange = GRAPH_EXCHANGE_NAME}

\* C5: a structured delivery that decodes is acknowledged first; the user
\* callback, when it is invoked, comes third, after the ack and after the
\* graph publish; the delivery is acknowledged at most once, and a delivery
\* whose callback was invoked (returning or raising) stands acknowledged
\* exactly once in the broker's books under its own tag.
C5_AckBeforeCallback ==
    (StructuredDelivery /\ CanParse(lastCall.body))
        => /\ lastCall.events # <<>>
           /\ lastCall.events[1].api = "basic_ack"
           /\ \A i \in CallbackAt(lastCall.events) :
                 /\ i = 3
                 /\ lastCall.events[1] = Ev("basic_ack", "", "", "ok")
                 /\ 2 \in GraphAt(lastCall.events)
           /\ CountAcks(lastCall.events) <= 1
           /\ lastCall.tag = Len(deliveries)
           /\ CallbackAt(lastCall.events) # {} => deliveries[lastCall.tag] = 1

C5_Witness ==
    /\ StructuredDelivery
    /\ lastCall.outcome = "CallbackError"
    /\ deliveries[lastCall.tag] = 1
    /\ sub.pc = "dead"

\* C6: a structured delivery whose user callback was invoked has published
\* exactly one message to the graph exchange, before the callback, and the
\* broker holds exactly that Graph message.
C6_OneGraphBeforeCallback ==
    (StructuredDelivery /\ CallbackAt(lastCall.events) # {})
        => /\ Cardinality(GraphAt(lastCall.events)) = 1
           /\ \A g \in GraphAt(lastCall.events), c \in CallbackAt(lastCall.events) :
                 g < c
           /\ Len(lastCall.graph) = 1
           /\ lastCall.graph[1].receiver = SubNode

C6_Witness ==
    /\ StructuredDelivery
    /\ lastCall.outcome = "ok"
    /\ GraphAt(lastCall.events) = {2}
    /\ lastCall.tag = 2

\* C7: a structured delivery that was decoded and acknowledged and whose
\* graph publish failed (undelivered, or the call raised) still has the user
\* callback invoked.
C7_TelemetryFailureKeepsCallback ==
    (/\ StructuredDelivery
     /\ \E g \in GraphAt(lastCall.events) : ~Taken(lastCall.events[g].res))
        => CallbackAt(lastCall.events) # {}

\* C8: a delivery to a str Subscriber invokes the user callback with the
\* body as it arrived and does nothing else: no ack reaches the broker, no
\* Graph message is published, _last_timestamp keeps its value.
C8_StringModeBypasses ==
    (lastCall.op = "Subscriber.callback" /\ lastCall.type = "str")
        => /\ Len(lastCall.events) = 1
           /\ lastCall.events[1].api = "callback"
           /\ lastCall.raw = <<lastCall.body>>
           /\ lastCall.graph = <<>>
           /\ deliveries[lastCall.tag] = 0
           /\ lastCall.stamp = lastCall.prev
           /\ sub.last_timestamp = lastCall.prev

C8_Witness ==
    /\ lastCall.op = "Subscriber.callback"
    /\ lastCall.type = "str"
    /\ lastCall.raw = <<JunkBody>>
    /\ lastCall.tag = 2
    /\ deliveries = <<0, 0>>

\* C9: a structured delivery whose body does not decode ends with the
\* decode error; it is not acknowledged, no Graph message is published, the
\* user callback is not invoked and _last_timestamp keeps its value.
C9_DecodeFailureLeavesNoTrace ==
    (StructuredDelivery /\ ~CanParse(lastCall.body))
        => /\ lastCall.outcome = "ValueError_decode"
           /\ lastCall.events = <<>>
           /\ deliveries[lastCall.tag] = 0
           /\ lastCall.graph = <<>>
           /\ lastCall.raw = <<>>
           /\ lastCall.stamp = lastCall.prev
           /\ sub.last_timestamp = lastCall.prev

C9_Witness ==
    /\ StructuredDelivery
    /\ lastCall.outcome = "ValueError_decode"
    /\ lastCall.prev > 0
    /\ deliveries = <<1, 0>>

(***************************************************************************)
(* Work queue                                                              *)
(***************************************************************************)
\* C10: a valid message published by a Tasker is put on the queue with its
\* body as published, and a Worker can be bound to the queue to receive it.
C10_TaskReachesWorker ==
    /\ (lastCall.op = "Tasker.publish"
        /\ ValidFor(lastCall.op, lastCall.type, lastCall.arg))
          => /\ lastCall.outcome = "ok"
             /\ Len(lastCall.wire) = 1
             /\ jobs # <<>>
    /\ worker # "failed"

\* C11: a Worker sets its prefetch bound on creation: constructing it
\* succeeds and tells the broker the bound (basic_qos) before consuming.
C11_PrefetchSetOnCreation ==
    lastCall.op = "Worker.__init__"
        => /\ lastCall.outcome = "ok"
           /\ \E i \in 1 .. Len(lastCall.events) : lastCall.events[i].api = "basic_qos"

(***************************************************************************)
(* Round trip                                                              *)
(***************************************************************************)
\* a payload of the declared type that has a wire form
ValidPair(declared, message) ==
    /\ IsInstance(message, declared)
    /\ declared = "str" \/ CanSerialize(message)

AllAnsweredOk(events) == \A i \in 1 .. Len(events) : events[i].res = "ok"

\* the value a consumer of the declared type gets out of a body
Decoded(declared, body) ==
    IF declared = "str" THEN Obj("str", "", 0, TRUE) ELSE FromString(declared, body)

\* equal but for the sender the Publisher stamps into the header
Equivalent(a, b) == a.cls = b.cls /\ a.stamp = b.stamp

\* C13: a publish (Publisher or Tasker) of a valid payload, plain string or
\* structured, that the broker answers with delivered, puts one body on the
\* wire, and that body decodes at a consumer of the same type to a value
\* equivalent to the one published.
C13_RoundTrip ==
    (/\ lastCall.op \in {"Publisher.publish", "Tasker.publish"}
     /\ ValidPair(lastCall.type, lastCall.arg)
     /\ AllAnsweredOk(lastCall.events))
        => /\ Len(lastCall.wire) = 1
           /\ Equivalent(Decoded(lastCall.type, lastCall.wire[1]), lastCall.arg)

(***************************************************************************)
(* Frequency of the Graph message                                          *)
(***************************************************************************)
\* a structured delivery whose Graph message the broker took
GraphPublished == StructuredDelivery /\ lastCall.graph # <<>>

IsZero(freq) == freq.num = 0 /\ freq.den > 0

\* C14: the Graph message of the first delivery a fresh Subscriber processes
\* has freq = 0, whatever the stamp of the message.
C14_FirstFreqZero ==
    (GraphPublished /\ lastCall.tag = 1) => IsZero(lastCall.graph[1].freq)

C14_Witness ==
    /\ GraphPublished
    /\ lastCall.tag = 1
    /\ lastCall.msg.stamp = MaxStamp
    /\ IsZero(lastCall.graph[1].freq)

\* C15: no frequency is the result of a division by zero (its denominator
\* is positive), and a delivery that follows one with the same stamp has
\* freq = 0.
C15_SameStampFreqZero ==
    GraphPublished
        => /\ lastCall.graph[1].freq.den > 0
           /\ (lastCall.tag > 1 /\ lastCall.msg.stamp = lastCall.prev)
                 => IsZero(lastCall.graph[1].freq)

C15_Witness ==
    /\ GraphPublished
    /\ lastCall.tag > 1
    /\ lastCall.prev > 0
    /\ lastCall.msg.stamp = lastCall.prev
    /\ IsZero(lastCall.graph[1].freq)

\* C16: every Graph message has freq >= 0, and a delivery whose stamp is
\* earlier than that of the delivery before it has freq = 0.
C16_FreqNeverNegative ==
    GraphPublished
        => /\ lastCall.graph[1].freq.num >= 0
           /\ lastCall.graph[1].freq.den > 0
           /\ (lastCall.tag > 1 /\ lastCall.msg.stamp < lastCall.prev)
                 => IsZero(lastCall.graph[1].freq)

C16_Witness ==
    /\ GraphPublished
    /\ lastCall.tag > 1
    /\ lastCall.msg.stamp < lastCall.prev
    /\ IsZero(lastCall.graph[1].freq)

\* freq = 1/delta, delta = (curr - prev) ticks = (curr - prev)/TicksPerSecond s
IsInverseOfDelta(freq, curr, prev) ==
    /\ freq.den > 0
    /\ freq.num * (curr - prev) = TicksPerSecond * freq.den

AckAt(events) == {i \in 1 .. Len(events) : events[i].api = "basic_ack"}

C18_CloseClosesOpenChannel ==
    \A e \in Endpoints :
        (lastCall.op = CloseOp[e] /\ lastCall.chan = "open" /\ lastCall.outcome = "ok")
            => channel[e] # "open"

\* C19: over any sequence of close() calls and disposals of an endpoint, no
\* call raises, close() is called on the channel at most once, and exactly
\* once when the endpoint had opened a channel.
C19_CloseIdempotent ==
    \A e \in Endpoints :
        /\ life.closes[e] <= 1
        /\ lastCall.op \in {CloseOp[e], DelOp[e]}
              => /\ lastCall.outcome = "ok"
                 /\ life.conns[e] > 0 => life.closes[e] = 1

\* C20: over any number of create() calls an endpoint opens at most one
\* connection, opens one only when it has no channel, and every create()
\* that returns has declared the endpoint's exchange or queue.
Declared(events) ==
    \E i \in 1 .. Len(events) :
        /\ events[i].api \in {"exchange_declare", "queue_declare"}
        /\ events[i].res = "ok"

C20_CreateIdempotent ==
    \A e \in Endpoints :
        /\ life.conns[e] <= 1
        /\ (lastCall.op = CreateOp[e] /\ lastCall.outcome = "ok")
              => /\ Declared(lastCall.events)
                 /\ lastCall.chan # "none" => channel[e] = lastCall.chan

\* C21: a publish on a Broadcaster, Publisher or Tasker that was constructed
\* and never explicitly opened finds or opens a channel: no publish of a
\* payload that passes the type check and serializes fails on an absent
\* channel, and the endpoint has a channel afterwards.
PublishOp ==
    [pub |-> "Publisher.publish", bc |-> "Broadcaster.publish",
     tasker |-> "Tasker.publish"]

C21_PublishFindsChannel ==
    \A e \in DOMAIN PublishOp :
        (/\ lastCall.op = PublishOp[e]
         /\ IsInstance(lastCall.arg, lastCall.type)
         /\ CanSerialize(lastCall.arg))
            => /\ ~(lastCall.chan = "none" /\ lastCall.outcome = "AttributeError")
               /\ lastCall.outcome = "ok" => channel[e] # "none"

\* a structured delivery whose body decoded
DecodedDelivery == StructuredDelivery /\ CanParse(lastCall.body)

\* the delivery's basic_ack was accepted
Acked(events) == \E i \in AckAt(events) : events[i].res = "ok"

\* C22 as stated: _last_timestamp starts at 0; after every structured
\* delivery that decoded it equals the stamp of that delivery, whichever
\* frequency branch was taken; no step other than such a delivery changes it.
C22_LastTimestampTracksStamp_Original ==
    /\ sub.last_timestamp = 0
    /\ [](DecodedDelivery => sub.last_timestamp = lastCall.body.stamp)
    /\ [][sub'.last_timestamp # sub.last_timestamp
            => (lastCall'.op = "Subscriber.callback" /\ lastCall'.type # "str"
                /\ CanParse(lastCall'.body))]_vars

\* C22 amended: _last_timestamp starts at 0; after every structured delivery
\* that decoded and whose basic_ack was accepted it equals the stamp of that
\* delivery, whichever frequency branch was taken and whatever became of the
\* graph publish and of the callback; a delivery whose basic_ack raised
\* leaves it as it was; no step other than a decoded, acknowledged delivery
\* changes it.
C22_LastTimestampTracksStamp ==
    /\ sub.last_timestamp = 0
    /\ [](DecodedDelivery =>
            IF Acked(lastCall.events)
            THEN sub.last_timestamp = lastCall.body.stamp
            ELSE sub.last_timestamp = lastCall.prev)
    /\ [][sub'.last_timestamp # sub.last_timestamp
            => (/\ lastCall'.op = "Subscriber.callback"
                /\ lastCall'.type # "str"
                /\ CanParse(lastCall'.body)
                /\ Acked(lastCall'.events))]_vars

\* a delivery stamped earlier than the one before it (negative delta) whose
\* graph publish failed has moved _last_timestamp to its own stamp
C22_Witness ==
    /\ DecodedDelivery
    /\ Acked(lastCall.events)
    /\ lastCall.outcome = "RuntimeWarning"
    /\ lastCall.prev = 2
    /\ lastCall.body.stamp = 1
    /\ sub.last_timestamp = 1

\* C23: the Graph message a Subscriber emits for a structured message that
\* the Publisher published (the only decodable bodies on the topic) names
\* the Publisher's node_name as sender, as stamped into the message before
\* it was serialized, and the Subscriber's node_name as receiver.
C23_GraphNamesBothNodes ==
    GraphPublished
        => /\ Len(lastCall.graph) = 1
           /\ lastCall.graph[1].sender = PubNode
           /\ lastCall.graph[1].receiver = SubNode

C23_Witness ==
    /\ GraphPublished
    /\ lastCall.body = Body("pb", PubNode, 1)
    /\ lastCall.graph[1].sender = PubNode
    /\ lastCall.graph[1].receiver = SubNode

\* C24: a Publisher.publish that is rejected because the payload is not of
\* the declared type leaves the caller's message object as it was.
C24_RejectedMessageUntouched ==
    (lastCall.op = "Publisher.publish" /\ ~IsInstance(lastCall.arg, lastCall.type))
        => lastCall.msg = lastCall.arg

\* the deliveries processed so far: decoded and acknowledged
Processed == {i \in 1 .. Len(deliveries) : deliveries[i] = 1}

\* C25: _last_timestamp is 0 exactly when no structured delivery has been
\* processed yet, so the first-message branch (_last_timestamp == 0) is taken
\* by no delivery that follows a processed one, whatever the stamps are.
C25_ZeroMeansNever ==
    /\ sub.last_timestamp = 0 <=> Processed = {}
    /\ (DecodedDelivery /\ Acked(lastCall.events) /\ lastCall.prev = 0)
          => Processed \subseteq {lastCall.tag}

====
